---------------------------- MODULE Spec2Model ----------------------------
(***************************************************************************)
(* The scrape-and-summarize pipeline of WebScraperCrewAgent, in its two    *)
(* variants: app/agent.py (Langfuse trace/span/generation handles, every   *)
(* recorder call in a try/except) and app/streamlit_app.py (Langfuse       *)
(* context managers, no try/except around recorder calls).                 *)
(*                                                                         *)
(* Text is a sequence of one-character strings.  Python values that may be *)
(* None or of several types are records [t |-> type, v |-> payload].       *)
(***************************************************************************)
EXTENDS Integers, Sequences, FiniteSets, TLC

VARIABLES
    variant,            \* "agent" (app/agent.py) or "streamlit" (app/streamlit_app.py)
    capture_cot,        \* CAPTURE_COT, read from the environment at import
    pc,                 \* position of the running handler
    langfuse,           \* self.langfuse: "unset", "present" or "none"
    ctor_failed,        \* history: the Langfuse initialisation block raised
    served,             \* respond calls finished on this agent
    user_input,         \* respond's argument
    url,                \* the extracted URL (a Python value)
    trace,              \* agent.py: respond's local trace, "none" or "handle"
    gen,                \* the generation handle, "none" or "handle"
    fetched,            \* what requests.get / raise_for_status did in this call
    scraped,            \* respond's local scraped
    response,           \* what chat.completions.create did in this call
    parsed,             \* (answer, reasoning, steps) of _call_openai_and_parse
    result,             \* what respond returned (a Python value)
    exc,                \* the exception that left respond: "none", "telemetry", "completion"
    fetch_calls,        \* requests.get calls made in this respond call
    completion_calls,   \* chat.completions.create calls made in this respond call
    completion_content, \* the content text of the prompts of those calls
    calls,              \* recorder calls made in this respond call, in order
    open,               \* spans/generations opened and not ended in this call
    ui                  \* what the Run Agent handler put on the page

vars == << variant, capture_cot, pc, langfuse, ctor_failed, served, user_input,
           url, trace, gen, fetched, scraped, response, parsed, result, exc,
           fetch_calls, completion_calls, completion_content, calls, open, ui >>

(***************************************************************************)
(* Bounds of the model.                                                    *)
(***************************************************************************)
MaxRequests == 2   \* respond calls per agent
MaxNodes == 2      \* top-level nodes of a fetched document (SpecScrape)

(***************************************************************************)
(* Python values.                                                          *)
(***************************************************************************)
PyNone == [t |-> "none", v |-> <<>>]
PyStr(s) == [t |-> "str", v |-> s]
PyInt(digits) == [t |-> "int", v |-> digits]
PyList(items) == [t |-> "list", v |-> items]
PyDict(pairs) == [t |-> "dict", v |-> pairs]
PyTuple(items) == [t |-> "tuple", v |-> items]

\* bool(x) for the values above
Truthy(x) ==
    CASE x.t = "none" -> FALSE
      [] x.t = "int" -> x.v # <<"0">>
      [] OTHER -> x.v # <<>>

(***************************************************************************)
(* Text helpers.                                                           *)
(***************************************************************************)
Letters ==
    { "a","b","c","d","e","f","g","h","i","j","k","l","m","n","o","p","q",
      "r","s","t","u","v","w","x","y","z","A","B","C","D","E","F","G","H",
      "I","J","K","L","M","N","O","P","Q","R","S","T","U","V","W","X","Y","Z" }
Digits == { "0","1","2","3","4","5","6","7","8","9" }
Whitespace == { " ", "\t", "\n", "\r", "\f" }

Rep(c, n) == [i \in 1..n |-> c]

StartsWithAt(s, i, pre) ==
    /\ i >= 1
    /\ i + Len(pre) - 1 <= Len(s)
    /\ SubSeq(s, i, i + Len(pre) - 1) = pre

StartsWith(s, pre) == StartsWithAt(s, 1, pre)

Contains(s, sub) == \E i \in 1..(Len(s) + 1) : StartsWithAt(s, i, sub)

\* the last index of the run of characters of class cls that starts at i
\* (i - 1 when s[i] is not in cls)
RECURSIVE RunEnd(_, _, _)
RunEnd(s, i, cls) ==
    IF i <= Len(s) /\ s[i] \in cls THEN RunEnd(s, i + 1, cls) ELSE i - 1

\* the last index of the run of non-whitespace characters that starts at i
RECURSIVE NonSpaceEnd(_, _)
NonSpaceEnd(s, i) ==
    IF i <= Len(s) /\ s[i] \notin Whitespace THEN NonSpaceEnd(s, i + 1) ELSE i - 1

\* str.strip()
RECURSIVE lstrip(_)
lstrip(s) == IF s # <<>> /\ Head(s) \in Whitespace THEN lstrip(Tail(s)) ELSE s
RECURSIVE rstrip(_)
rstrip(s) ==
    IF s # <<>> /\ s[Len(s)] \in Whitespace THEN rstrip(SubSeq(s, 1, Len(s) - 1)) ELSE s
strip(s) == rstrip(lstrip(s))

\* sep.join(parts)
RECURSIVE join(_, _)
join(sep, parts) ==
    IF parts = <<>> THEN <<>>
    ELSE IF Len(parts) = 1 THEN parts[1]
    ELSE parts[1] \o sep \o join(sep, Tail(parts))

\* s[:n]
Slice(s, n) == SubSeq(s, 1, IF Len(s) < n THEN Len(s) ELSE n)

(***************************************************************************)
(* _extract_first_url: re.findall(r"https?://\S+", text), first match.     *)
(***************************************************************************)
\* where the \S+ of a match starting at i begins, 0 when "https?://" does
\* not match at i
UrlBodyStart(s, i) ==
    IF StartsWithAt(s, i, <<"h","t","t","p","s",":","/","/">>) THEN i + 8
    ELSE IF StartsWithAt(s, i, <<"h","t","t","p",":","/","/">>) THEN i + 7
    ELSE 0

\* the last index of the match of the pattern at i, 0 when there is none
UrlMatchEndLoose(s, i) ==
    LET b == UrlBodyStart(s, i)
    IN  IF b = 0 THEN 0 ELSE NonSpaceEnd(s, b)

UrlMatchEnd(s, i) ==
    LET b == UrlBodyStart(s, i)
    IN  IF b = 0 \/ NonSpaceEnd(s, b) < b THEN 0 ELSE NonSpaceEnd(s, b)

extract_first_url(text) ==
    LET starts == { i \in 1..Len(text) : UrlMatchEnd(text, i) # 0 }
    IN  IF starts = {} THEN PyNone
        ELSE LET i == CHOOSE j \in starts : \A k \in starts : j <= k
             IN  PyStr(SubSeq(text, i, UrlMatchEnd(text, i)))

(***************************************************************************)
(* scrape_website.  A fetched page is the tree html.parser builds from     *)
(* resp.text: a sequence of nodes [name, text, children], name "#text"     *)
(* for a text node.  A failed fetch (requests.get raises, raise_for_status *)
(* raises on a non-2xx status) carries the text of its exception.          *)
(***************************************************************************)
TextNode(s) == [name |-> "#text", text |-> s, children |-> <<>>]
Element(name, kids) == [name |-> name, text |-> <<>>, children |-> kids]

FetchOk(nodes) == [ok |-> TRUE, soup |-> nodes, cause |-> <<>>]
FetchFailed(cause) == [ok |-> FALSE, soup |-> <<>>, cause |-> cause]
NotFetched == [ok |-> FALSE, soup |-> <<>>, cause |-> <<"-">>]

ScrapedTextCap == 8000

NoiseTags == { "script", "style", "nav", "footer", "header" }

\* for tag in soup([...]): tag.decompose()
RECURSIVE decompose_noise(_)
decompose_noise(nodes) ==
    IF nodes = <<>> THEN <<>>
    ELSE LET n == Head(nodes)
         IN  (IF n.name \in NoiseTags THEN <<>>
              ELSE << [n EXCEPT !.children = decompose_noise(n.children)] >>)
             \o decompose_noise(Tail(nodes))

\* soup.find_all("p"): every p element, nested ones too, in document order
RECURSIVE find_all_p(_)
find_all_p(nodes) ==
    IF nodes = <<>> THEN <<>>
    ELSE LET n == Head(nodes)
         IN  (IF n.name = "p" THEN << n >> ELSE <<>>)
             \o find_all_p(n.children) \o find_all_p(Tail(nodes))

\* the strings below a node, in document order
RECURSIVE all_strings(_)
all_strings(nodes) ==
    IF nodes = <<>> THEN <<>>
    ELSE LET n == Head(nodes)
         IN  (IF n.name = "#text" THEN << n.text >> ELSE all_strings(n.children))
             \o all_strings(Tail(nodes))

\* p.get_text(" ")
get_text(node, sep) == join(sep, all_strings(<< node >>))

\* [x for x in xs if x]
RECURSIVE non_empty(_)
non_empty(xs) ==
    IF xs = <<>> THEN <<>>
    ELSE (IF Head(xs) # <<>> THEN << Head(xs) >> ELSE <<>>) \o non_empty(Tail(xs))

\* a variant that caps each paragraph and not the concatenation
extract_text_cap_per_paragraph(soup) ==
    LET ps == find_all_p(decompose_noise(soup))
        paragraphs == [i \in 1..Len(ps) |-> Slice(strip(get_text(ps[i], <<" ">>)), ScrapedTextCap)]
    IN  join(<<" ">>, non_empty(paragraphs))

\* lines 60-67 of scrape_website: parse, drop noise, join paragraphs, cap
extract_text(soup) ==
    LET ps == find_all_p(decompose_noise(soup))
        paragraphs == [i \in 1..Len(ps) |-> strip(get_text(ps[i], <<" ">>))]
        text == join(<<" ">>, non_empty(paragraphs))
    IN  Slice(text, ScrapedTextCap)

ErrorPrefix == <<"E","r","r","o","r"," ","s","c","r","a","p","i","n","g"," ","w","e","b","s","i","t","e",":"," ">>

scrape_website(outcome) ==
    IF outcome.ok THEN extract_text(outcome.soup)
    ELSE ErrorPrefix \o outcome.cause

(***************************************************************************)
(* json.loads on the JSON subset the model's responses use: strings        *)
(* without escapes, unsigned integers, null, arrays and objects, no        *)
(* whitespace between tokens.  An object decodes to a dict, kept as the    *)
(* sequence of its <<key, value>> pairs.                                   *)
(***************************************************************************)
ParseFail == [ok |-> FALSE, val |-> PyNone, next |-> 0]
ParseOk(val, next) == [ok |-> TRUE, val |-> val, next |-> next]

\* the index of the first '"' at or after i, 0 when there is none
RECURSIVE QuoteAt(_, _)
QuoteAt(s, i) ==
    IF i > Len(s) THEN 0 ELSE IF s[i] = "\"" THEN i ELSE QuoteAt(s, i + 1)

ParseString(s, i) ==
    IF i > Len(s) \/ s[i] # "\"" THEN ParseFail
    ELSE LET j == QuoteAt(s, i + 1)
         IN  IF j = 0 THEN ParseFail ELSE ParseOk(PyStr(SubSeq(s, i + 1, j - 1)), j + 1)

RECURSIVE ParseValue(_, _)
RECURSIVE ParseElements(_, _, _)
RECURSIVE ParseMembers(_, _, _)

ParseValue(s, i) ==
    IF i > Len(s) THEN ParseFail
    ELSE CASE s[i] = "\"" -> ParseString(s, i)
           [] s[i] \in Digits ->
                LET e == RunEnd(s, i, Digits) IN ParseOk(PyInt(SubSeq(s, i, e)), e + 1)
           [] StartsWithAt(s, i, <<"n","u","l","l">>) -> ParseOk(PyNone, i + 4)
           [] s[i] = "[" ->
                IF i + 1 <= Len(s) /\ s[i + 1] = "]" THEN ParseOk(PyList(<<>>), i + 2)
                ELSE ParseElements(s, i + 1, <<>>)
           [] s[i] = "{" ->
                IF i + 1 <= Len(s) /\ s[i + 1] = "}" THEN ParseOk(PyDict(<<>>), i + 2)
                ELSE ParseMembers(s, i + 1, <<>>)
           [] OTHER -> ParseFail

ParseElements(s, i, acc) ==
    LET r == ParseValue(s, i)
    IN  IF ~r.ok \/ r.next > Len(s) THEN ParseFail
        ELSE IF s[r.next] = "," THEN ParseElements(s, r.next + 1, Append(acc, r.val))
        ELSE IF s[r.next] = "]" THEN ParseOk(PyList(Append(acc, r.val)), r.next + 1)
        ELSE ParseFail

ParseMembers(s, i, acc) ==
    LET k == ParseString(s, i)
    IN  IF ~k.ok \/ k.next > Len(s) \/ s[k.next] # ":" THEN ParseFail
        ELSE LET r == ParseValue(s, k.next + 1)
             IN  IF ~r.ok \/ r.next > Len(s) THEN ParseFail
                 ELSE IF s[r.next] = ","
                      THEN ParseMembers(s, r.next + 1, Append(acc, << k.val.v, r.val >>))
                 ELSE IF s[r.next] = "}"
                      THEN ParseOk(PyDict(Append(acc, << k.val.v, r.val >>)), r.next + 1)
                 ELSE ParseFail

\* json.loads(content): ok is FALSE where it raises
json_loads(content) ==
    LET r == ParseValue(content, 1)
    IN  IF r.ok /\ r.next = Len(content) + 1 THEN [ok |-> TRUE, val |-> r.val]
        ELSE [ok |-> FALSE, val |-> PyNone]

\* obj.get(key, default) of a dict: the last pair with the key wins
dict_get(obj, key, default) ==
    LET hits == { i \in 1..Len(obj.v) : obj.v[i][1] = key }
    IN  IF hits = {} THEN default
        ELSE obj.v[CHOOSE i \in hits : \A j \in hits : j <= i][2]

\* repr(x) and str(x)
RECURSIVE py_repr(_)
py_repr(x) ==
    CASE x.t = "str" -> <<"'">> \o x.v \o <<"'">>
      [] x.t = "int" -> x.v
      [] x.t = "none" -> <<"N","o","n","e">>
      [] x.t = "list" ->
           <<"[">> \o join(<<","," ">>, [i \in 1..Len(x.v) |-> py_repr(x.v[i])]) \o <<"]">>
      [] OTHER ->
           <<"{">> \o join(<<","," ">>, [i \in 1..Len(x.v) |->
                      <<"'">> \o x.v[i][1] \o <<"'",":"," ">> \o py_repr(x.v[i][2])]) \o <<"}">>

py_str(x) == IF x.t = "str" THEN x.v ELSE py_repr(x)

(***************************************************************************)
(* _scrub_sensitive (agent.py): two re.sub passes.                         *)
(***************************************************************************)
EmailLocalChars == Letters \cup Digits \cup { ".", "_", "%", "+", "-" }
EmailDomainChars == Letters \cup Digits \cup { ".", "-" }
WordChars == Letters \cup Digits \cup { "_" }
KeyChars == WordChars \cup { "-" }

RedactedEmail == <<"[","R","E","D","A","C","T","E","D","_","E","M","A","I","L","]">>
RedactedKey == <<"[","R","E","D","A","C","T","E","D","_","K","E","Y","]">>

Max(S) == CHOOSE x \in S : \A y \in S : y <= x

\* the last index of the match of
\* [A-Za-z0-9._%+-]+@[A-Za-z0-9.-]+\.[A-Za-z]{2,} at i, 0 when there is none
EmailMatchEnd(s, i) ==
    LET at == RunEnd(s, i, EmailLocalChars) + 1
    IN  IF at = i \/ at > Len(s) \/ s[at] # "@" THEN 0
        ELSE LET r == RunEnd(s, at + 1, EmailDomainChars)
                 dots == { d \in (at + 2)..(r - 2) :
                             /\ s[d] = "."
                             /\ s[d + 1] \in Letters
                             /\ s[d + 2] \in Letters }
             IN  IF dots = {} THEN 0 ELSE RunEnd(s, Max(dots) + 1, Letters)

\* the last index of the match of \b(sk|pk)-[A-Za-z0-9_\-]+\b at i, 0 when
\* there is none
KeyMatchEnd(s, i) ==
    IF ~(StartsWithAt(s, i, <<"s","k","-">>) \/ StartsWithAt(s, i, <<"p","k","-">>)) THEN 0
    ELSE IF i > 1 /\ s[i - 1] \in WordChars THEN 0
    ELSE LET r == RunEnd(s, i + 3, KeyChars)
             ends == { e \in (i + 3)..r :
                         (s[e] \in WordChars) # (e + 1 <= Len(s) /\ s[e + 1] \in WordChars) }
         IN  IF ends = {} THEN 0 ELSE Max(ends)

\* re.sub(email pattern, "[REDACTED_EMAIL]", s), scanning from i
RECURSIVE sub_email(_, _)
sub_email(s, i) ==
    IF i > Len(s) THEN <<>>
    ELSE LET e == EmailMatchEnd(s, i)
         IN  IF e # 0 THEN RedactedEmail \o sub_email(s, e + 1)
             ELSE << s[i] >> \o sub_email(s, i + 1)

\* re.sub(key pattern, "[REDACTED_KEY]", s), scanning from i
RECURSIVE sub_key(_, _)
sub_key(s, i) ==
    IF i > Len(s) THEN <<>>
    ELSE LET e == KeyMatchEnd(s, i)
         IN  IF e # 0 THEN RedactedKey \o sub_key(s, e + 1)
             ELSE << s[i] >> \o sub_key(s, i + 1)

scrub_sensitive(s) == sub_key(sub_email(s, 1), 1)

(***************************************************************************)
(* chat.completions.create and _call_openai_and_parse.  A response either  *)
(* raises or carries message.content (a str or None); cot is the reasoning *)
(* text the model wrote into that content (empty when it wrote none).      *)
(***************************************************************************)
Completion(content, cot) == [raises |-> FALSE, content |-> content, cot |-> cot]
CompletionRaises == [raises |-> TRUE, content |-> PyNone, cot |-> <<>>]
NoResponse == [raises |-> FALSE, content |-> PyNone, cot |-> <<"-">>]

Outcome(answer, reasoning, steps) ==
    [answer |-> answer, reasoning |-> reasoning, steps |-> steps]
NoOutcome == Outcome(PyNone, PyNone, PyNone)

\* a fallback that returns an empty answer where the body does not decode
parse_json_empty_fallback(content, which) ==
    LET obj == json_loads(content)
    IN  IF ~obj.ok \/ obj.val.t # "dict" THEN Outcome(PyStr(<<>>), PyNone, PyNone)
        ELSE LET answer == PyStr(py_str(dict_get(obj.val, <<"a","n","s","w","e","r">>, PyStr(<<>>))))
                 reasoning == dict_get(obj.val, <<"r","e","a","s","o","n","i","n","g">>, PyNone)
             IN  IF which = "agent"
                 THEN Outcome(answer,
                              IF reasoning.t = "str"
                              THEN PyStr(scrub_sensitive(reasoning.v)) ELSE reasoning,
                              dict_get(obj.val, <<"i","n","t","e","r","m","e","d","i","a","t","e","_","s","t","e","p","s">>, PyNone))
                 ELSE Outcome(answer, reasoning, PyNone)

\* the try/except around json.loads: obj.get raises AttributeError on a
\* decoded value that is no dict, and the except clause catches it.
\* streamlit_app.py returns (answer, reasoning) only: steps is None there.
parse_json(content, which) ==
    LET obj == json_loads(content)
    IN  IF ~obj.ok \/ obj.val.t # "dict" THEN Outcome(PyStr(content), PyNone, PyNone)
        ELSE LET answer == PyStr(py_str(dict_get(obj.val, <<"a","n","s","w","e","r">>, PyStr(<<>>))))
                 reasoning == dict_get(obj.val, <<"r","e","a","s","o","n","i","n","g">>, PyNone)
             IN  IF which = "agent"
                 THEN Outcome(answer,
                              IF reasoning.t = "str"
                              THEN PyStr(scrub_sensitive(reasoning.v)) ELSE reasoning,
                              dict_get(obj.val, <<"i","n","t","e","r","m","e","d","i","a","t","e","_","s","t","e","p","s">>, PyNone))
                 ELSE Outcome(answer, reasoning, PyNone)

\* _call_openai_and_parse once create has returned resp
call_openai_and_parse(resp, cot_mode, which) ==
    IF cot_mode
    THEN parse_json(IF Truthy(resp.content) THEN resp.content.v ELSE <<>>, which)
    ELSE Outcome(resp.content, PyNone, PyNone)

(***************************************************************************)
(* The environment: what the user types, what the fetch does, what the     *)
(* completion API answers.                                                 *)
(***************************************************************************)
UserInputs ==
    { <<>>,
      <<"s","u","m","m","a","r","i","z","e"," ","t","h","i","s">>,
      <<"h","t","t","p",":","/","/"," ","i","s"," ","a"," ","s","c","h","e","m","e">>,
      <<"s","e","e"," ","f","t","p",":","/","/","a",".","b","/","c">>,
      <<"h","t","t","p","s",":","/","/">>,
      <<"r","e","a","d"," ","h","t","t","p",":","/","/","a",".","i","o","/","x","?","q","=","1","."," ","t","h","a","n","k","s">>,
      <<"h","t","t","p","s",":","/","/","b",".","o","r","g"," ","a","n","d"," ","h","t","t","p",":","/","/","c",".","o","r","g">>,
      <<"x","h","t","t","p","s",":","/","/","d",".","e">> }

NoUrlMessage == <<"P","l","e","a","s","e"," ","p","r","o","v","i","d","e"," ","a"," ","v","a","l","i","d"," ","w","e","b","s","i","t","e"," ","U","R","L"," ","i","n"," ","y","o","u","r"," ","q","u","e","r","y",".">>

\* the pages the full pipeline fetches
Pages ==
    { << Element("nav", << Element("p", << TextNode(<<"m","e","n","u">>) >>) >>),
         Element("p", << TextNode(<<"A">>) >>),
         Element("script", << TextNode(<<"x","=","1">>) >>),
         Element("div", << Element("p", << TextNode(<<" ","B"," ">>) >>),
                           Element("p", << TextNode(<<"C">>) >>) >>) >>,
      <<>> }

FetchOutcomes ==
    { FetchOk(page) : page \in Pages }
    \cup { FetchFailed(<<"4","0","4"," ","C","l","i","e","n","t"," ","E","r","r","o","r",":"," ","N","o","t"," ","F","o","u","n","d">>),
           FetchFailed(<<"t","i","m","e","d"," ","o","u","t">>) }

\* the nodes SpecScrape builds its documents from
LongA == Rep("a", 4000)
LongB == Rep("b", 7999)
LongC == Rep("c", 8001)

NodeChoices ==
    { TextNode(<<"l","o","o","s","e">>),
      Element("p", << TextNode(<<"A">>) >>),
      Element("p", << TextNode(<<" ">>) >>),
      Element("p", << TextNode(<<"B">>), Element("style", << TextNode(<<"s">>) >>),
                      Element("b", << TextNode(<<"C"," ">>) >>) >>),
      Element("p", << TextNode(<<"D">>), Element("p", << TextNode(<<"E">>) >>) >>),
      Element("script", << TextNode(<<"j","s">>) >>),
      Element("nav", << Element("p", << TextNode(<<"N">>) >>) >>),
      Element("header", << Element("div", << Element("p", << TextNode(<<"H">>) >>) >>) >>),
      Element("div", << Element("footer", << Element("p", << TextNode(<<"F">>) >>) >>),
                        Element("p", << TextNode(<<"G">>) >>) >>),
      Element("p", << TextNode(LongA) >>),
      Element("p", << TextNode(LongB) >>),
      Element("p", << TextNode(LongC) >>) }

Documents == UNION { [1..n -> NodeChoices] : n \in 0..MaxNodes }

CompletionResponses ==
    { CompletionRaises,
      Completion(PyNone, <<>>),
      Completion(PyStr(<<>>), <<>>),
      Completion(PyStr(<<"p","l","a","i","n"," ","t","e","x","t"," ","r","e","p","l","y">>), <<>>),
      Completion(PyStr(<<"{","\"","a","n","s","w","e","r","\"",":","\"","X","\"",",","\"","r","e","a","s","o","n","i","n","g","\"",":","\"","c","o","n","t","a","c","t"," ","m","e"," ","a","t"," ","a","@","b",".","c","o","m","\"","}">>),
                 <<"c","o","n","t","a","c","t"," ","m","e"," ","a","t"," ","a","@","b",".","c","o","m">>),
      Completion(PyStr(<<"{","\"","r","e","a","s","o","n","i","n","g","\"",":","\"","u","s","e"," ","s","k","-","a","1","_","b"," ","n","o","w","\"",",","\"","i","n","t","e","r","m","e","d","i","a","t","e","_","s","t","e","p","s","\"",":","[","{","\"","s","t","e","p","\"",":","1",",","\"","t","h","o","u","g","h","t","\"",":","\"","t","\"","}","]",",","\"","a","n","s","w","e","r","\"",":","7","}">>),
                 <<"u","s","e"," ","s","k","-","a","1","_","b"," ","n","o","w">>),
      Completion(PyStr(<<"{","\"","r","e","a","s","o","n","i","n","g","\"",":","\"","s","e","c","r","e","t"," ","p","l","a","n","\"",",","\"","a","n","s","w">>), <<"s","e","c","r","e","t"," ","p","l","a","n">>),
      Completion(PyStr(<<"{","\"","r","e","a","s","o","n","i","n","g","\"",":","\"","o","n","l","y"," ","r","a","t","i","o","n","a","l","e","\"","}">>), <<"o","n","l","y"," ","r","a","t","i","o","n","a","l","e">>),
      Completion(PyStr(<<"[","\"","X","\"","]">>), <<>>),
      Completion(PyStr(<<"{","\"","a","n","s","w","e","r","\"",":","n","u","l","l",",","\"","r","e","a","s","o","n","i","n","g","\"",":","[","\"","p","@","q",".","r","s","\"","]","}">>), <<"p","@","q",".","r","s">>) }

(***************************************************************************)
(* Construction.                                                           *)
(***************************************************************************)
Call(op, name, payload, raised) ==
    [op |-> op, name |-> name, payload |-> payload, raised |-> raised]

ConfigVars == << variant, capture_cot, langfuse, ctor_failed >>

\* the state of one respond call before it has done anything
FreshCall ==
    /\ trace' = "none"
    /\ gen' = "none"
    /\ fetched' = NotFetched
    /\ scraped' = <<>>
    /\ response' = NoResponse
    /\ parsed' = NoOutcome
    /\ exc' = "none"
    /\ fetch_calls' = 0
    /\ completion_calls' = 0
    /\ completion_content' = <<>>
    /\ calls' = <<>>
    /\ open' = {}

Init ==
    /\ variant \in { "agent", "streamlit" }
    /\ capture_cot \in BOOLEAN
    /\ pc = "page"
    /\ langfuse = "unset"
    /\ ctor_failed = FALSE
    /\ served = 0
    /\ user_input = <<>>
    /\ url = PyNone
    /\ trace = "none"
    /\ gen = "none"
    /\ fetched = NotFetched
    /\ scraped = <<>>
    /\ response = NoResponse
    /\ parsed = NoOutcome
    /\ result = PyNone
    /\ exc = "none"
    /\ fetch_calls = 0
    /\ completion_calls = 0
    /\ completion_content = <<>>
    /\ calls = <<>>
    /\ open = {}
    /\ ui = "page"

\* an except clause that builds the recorder again
init_langfuse_recreate(ctor_raises, startup_raises) == "present"

\* the try/except of __init__: Langfuse(), then the startup trace (agent.py)
\* or the startup span and flush (streamlit_app.py); any exception leaves
\* self.langfuse = None
init_langfuse(ctor_raises, startup_raises) ==
    IF ctor_raises \/ startup_raises THEN "none" ELSE "present"

\* the Run Agent handler up to the constructed agent
run_agent_init(api_key, ctor_raises, startup_raises) ==
    /\ pc = "page"
    /\ IF ~api_key
       THEN /\ ui' = "error: Please provide your OpenAI API key."
            /\ pc' = "stopped"
            /\ UNCHANGED << langfuse, ctor_failed >>
       ELSE /\ langfuse' = init_langfuse(ctor_raises, startup_raises)
            /\ ctor_failed' = ctor_raises
            /\ pc' = "idle"
            /\ ui' = "page"
    /\ UNCHANGED << variant, capture_cot, served, user_input, url, trace, gen,
                    fetched, scraped, response, parsed, result, exc, fetch_calls,
                    completion_calls, completion_content, calls, open >>

(***************************************************************************)
(* respond, first lines (both files): extract the URL, return the fixed    *)
(* tuple when there is none.                                               *)
(***************************************************************************)
NoUrlResult == PyTuple(<< PyStr(<<>>), PyStr(<<>>), PyStr(NoUrlMessage) >>)

RespondResult == PyTuple(<< url, PyStr(scraped), parsed.answer >>)

\* whether respond takes its recorder branch
has_recorder(lf) == lf = "present"

respond_begin(input, first_pc) ==
    /\ pc = "idle"
    /\ served < MaxRequests
    /\ served' = served + 1
    /\ user_input' = input
    /\ url' = extract_first_url(input)
    /\ FreshCall
    /\ ui' = "spinner"
    /\ IF ~Truthy(url')
       THEN result' = NoUrlResult /\ pc' = "returned"
       ELSE result' = PyNone /\ pc' = first_pc
    /\ UNCHANGED ConfigVars

\* requests.get and the rest of scrape_website, inside its try/except
scrape_step(outcome, next_pc) ==
    /\ fetched' = outcome
    /\ fetch_calls' = fetch_calls + 1
    /\ scraped' = scrape_website(outcome)
    /\ pc' = next_pc

\* a completion stage that swallows the exception and answers ""
completion_swallowed(resp) ==
    /\ response' = resp
    /\ completion_calls' = completion_calls + 1
    /\ completion_content' = scraped
    /\ exc' = "none"
    /\ pc' = "returned"
    /\ parsed' = Outcome(PyStr(<<>>), PyNone, PyNone)
    /\ result' = PyTuple(<< url, PyStr(scraped), PyStr(<<>>) >>)

\* chat.completions.create raised: the exception leaves summarize_content
\* and respond
completion_raised(resp) ==
    /\ response' = resp
    /\ completion_calls' = completion_calls + 1
    /\ completion_content' = scraped
    /\ exc' = "completion"
    /\ pc' = "raised"
    /\ UNCHANGED << parsed, result >>

\* chat.completions.create returned: decode its content
completion_returned(resp) ==
    /\ response' = resp
    /\ completion_calls' = completion_calls + 1
    /\ completion_content' = scraped
    /\ parsed' = call_openai_and_parse(resp, capture_cot, variant)
    /\ exc' = "none"

(***************************************************************************)
(* app/agent.py: respond and summarize_content, one action per call the    *)
(* code makes to the recorder, the fetch or the completion API.            *)
(***************************************************************************)
agent_respond(input) ==
    /\ variant = "agent"
    /\ respond_begin(input, IF has_recorder(langfuse) THEN "a_trace" ELSE "a_scrape")

\* trace = self.langfuse.trace(...), in try/except
agent_trace(raises) ==
    /\ variant = "agent"
    /\ pc = "a_trace"
    /\ calls' = Append(calls, Call("trace", "web-scraper-respond", PyStr(user_input), raises))
    /\ trace' = IF raises THEN "none" ELSE "handle"
    /\ pc' = "a_scrape"
    /\ UNCHANGED << ConfigVars, served, user_input, url, gen, fetched, scraped,
                    response, parsed, result, exc, fetch_calls, completion_calls,
                    completion_content, open, ui >>

\* summarize_content's test "self.langfuse and trace is not None"
agent_logs_generation == has_recorder(langfuse) /\ trace # "none"

agent_scrape(outcome) ==
    /\ variant = "agent"
    /\ pc = "a_scrape"
    /\ scrape_step(outcome,
                   IF trace # "none" THEN "a_scrape_span"
                   ELSE IF agent_logs_generation THEN "a_generation"
                   ELSE "a_complete")
    /\ UNCHANGED << ConfigVars, served, user_input, url, trace, gen, response,
                    parsed, result, exc, completion_calls, completion_content,
                    calls, open, ui >>

\* trace.span(name=...).end(output=...), in try/except: the calls made and
\* the spans left open when the create or the end raises ("create", "end")
span_and_end(log, name, payload, fails) ==
    CASE fails = "create" -> Append(log, Call("span", name, PyNone, TRUE))
      [] fails = "end" ->
           Append(Append(log, Call("span", name, PyNone, FALSE)),
                  Call("span_end", name, payload, TRUE))
      [] OTHER ->
           Append(Append(log, Call("span", name, PyNone, FALSE)),
                  Call("span_end", name, payload, FALSE))

agent_scrape_span(fails) ==
    /\ variant = "agent"
    /\ pc = "a_scrape_span"
    /\ calls' = span_and_end(calls, "scrape_website", PyNone, fails)
    /\ open' = IF fails = "end" THEN open \cup { "scrape_website" } ELSE open
    /\ pc' = IF agent_logs_generation THEN "a_generation" ELSE "a_complete"
    /\ UNCHANGED << ConfigVars, served, user_input, url, trace, gen, fetched,
                    scraped, response, parsed, result, exc, fetch_calls,
                    completion_calls, completion_content, ui >>

\* gen = trace.generation(...), in try/except
agent_generation(raises) ==
    /\ variant = "agent"
    /\ pc = "a_generation"
    /\ calls' = Append(calls, Call("generation", "summarize_content", PyStr(scraped), raises))
    /\ gen' = IF raises THEN "none" ELSE "handle"
    /\ open' = IF raises THEN open ELSE open \cup { "summarize_content" }
    /\ pc' = "a_complete"
    /\ UNCHANGED << ConfigVars, served, user_input, url, trace, fetched, scraped,
                    response, parsed, result, exc, fetch_calls, completion_calls,
                    completion_content, ui >>

\* _call_openai_and_parse(); without the recorder branch summarize_content
\* and respond return at once
agent_complete(resp) ==
    /\ variant = "agent"
    /\ pc = "a_complete"
    /\ IF resp.raises
       THEN completion_raised(resp)
       ELSE /\ completion_returned(resp)
            /\ IF agent_logs_generation
               THEN /\ pc' = IF gen # "none" THEN "a_gen_output" ELSE "a_reasoning"
                    /\ UNCHANGED result
               ELSE /\ pc' = "returned"
                    /\ result' = PyTuple(<< url, PyStr(scraped), parsed'.answer >>)
    /\ UNCHANGED << ConfigVars, served, user_input, url, trace, gen, fetched,
                    scraped, fetch_calls, calls, open, ui >>

\* gen.output = answer, outside any try/except
agent_gen_output(raises) ==
    /\ variant = "agent"
    /\ pc = "a_gen_output"
    /\ calls' = Append(calls, Call("gen_output", "summarize_content", parsed.answer, raises))
    /\ IF raises
       THEN exc' = "telemetry" /\ pc' = "raised"
       ELSE exc' = exc /\ pc' = "a_reasoning"
    /\ UNCHANGED << ConfigVars, served, user_input, url, trace, gen, fetched,
                    scraped, response, parsed, result, fetch_calls,
                    completion_calls, completion_content, open, ui >>

\* the chain_of_thought and intermediate_steps spans (each in try/except),
\* then summarize_content and respond return
agent_reasoning_spans(fails_cot, fails_steps) ==
    /\ variant = "agent"
    /\ pc = "a_reasoning"
    /\ LET log_cot == capture_cot /\ Truthy(parsed.reasoning)
           log_steps == capture_cot /\ Truthy(parsed.steps)
           after_cot == IF log_cot
                        THEN span_and_end(calls, "chain_of_thought", parsed.reasoning, fails_cot)
                        ELSE calls
       IN  /\ calls' = IF log_steps
                       THEN span_and_end(after_cot, "intermediate_steps", parsed.steps, fails_steps)
                       ELSE after_cot
           /\ open' = open
                      \cup (IF log_cot /\ fails_cot = "end" THEN { "chain_of_thought" } ELSE {})
                      \cup (IF log_steps /\ fails_steps = "end" THEN { "intermediate_steps" } ELSE {})
    /\ result' = RespondResult
    /\ pc' = "returned"
    /\ UNCHANGED << ConfigVars, served, user_input, url, trace, gen, fetched,
                    scraped, response, parsed, exc, fetch_calls, completion_calls,
                    completion_content, ui >>

(***************************************************************************)
(* app/streamlit_app.py: respond and summarize_content.  The recorder is   *)
(* used through "with" blocks and no recorder call is inside a try/except: *)
(* an exception of a recorder call leaves respond, and on its way out      *)
(* every enclosing "with" block ends its span.                             *)
(***************************************************************************)
st_respond(input) ==
    /\ variant = "streamlit"
    /\ respond_begin(input, IF has_recorder(langfuse) THEN "s_root" ELSE "s_scrape")

\* the calls the enclosing "with" blocks make while an exception passes
RECURSIVE unwind(_, _)
unwind(log, names) ==
    IF names = <<>> THEN log
    ELSE unwind(Append(log, Call(IF Head(names) = "summarize_content"
                                 THEN "gen_end" ELSE "span_end",
                                 Head(names), PyNone, FALSE)),
                Tail(names))

Range(seq) == { seq[i] : i \in 1..Len(seq) }

\* an exception raised at a recorder call leaves respond through `enclosing`
st_propagate(call, enclosing, kind) ==
    /\ calls' = unwind(Append(calls, call), enclosing)
    /\ open' = open \ Range(enclosing)
    /\ exc' = kind
    /\ pc' = "raised"

\* with self.langfuse.start_as_current_span(name="web-scraper-respond", ...)
st_root_span(raises) ==
    /\ variant = "streamlit"
    /\ pc = "s_root"
    /\ LET call == Call("span", "web-scraper-respond", PyStr(user_input), raises)
       IN  IF raises
           THEN st_propagate(call, <<>>, "telemetry")
           ELSE /\ calls' = Append(calls, call)
                /\ open' = open \cup { "web-scraper-respond" }
                /\ exc' = exc
                /\ pc' = "s_scrape_span"
    /\ UNCHANGED << ConfigVars, served, user_input, url, trace, gen, fetched,
                    scraped, response, parsed, result, fetch_calls,
                    completion_calls, completion_content, ui >>

\* with self.langfuse.start_as_current_span(name="scrape_website", ...)
st_scrape_span(raises) ==
    /\ variant = "streamlit"
    /\ pc = "s_scrape_span"
    /\ LET call == Call("span", "scrape_website", PyNone, raises)
       IN  IF raises
           THEN st_propagate(call, << "web-scraper-respond" >>, "telemetry")
           ELSE /\ calls' = Append(calls, call)
                /\ open' = open \cup { "scrape_website" }
                /\ exc' = exc
                /\ pc' = "s_scrape"
    /\ UNCHANGED << ConfigVars, served, user_input, url, trace, gen, fetched,
                    scraped, response, parsed, result, fetch_calls,
                    completion_calls, completion_content, ui >>

st_scrape(outcome) ==
    /\ variant = "streamlit"
    /\ pc = "s_scrape"
    /\ scrape_step(outcome, IF has_recorder(langfuse) THEN "s_scrape_exit" ELSE "s_complete")
    /\ UNCHANGED << ConfigVars, served, user_input, url, trace, gen, response,
                    parsed, result, exc, completion_calls, completion_content,
                    calls, open, ui >>

\* the end of the scrape_website "with" block
st_scrape_span_exit(raises) ==
    /\ variant = "streamlit"
    /\ pc = "s_scrape_exit"
    /\ LET call == Call("span_end", "scrape_website", PyNone, raises)
       IN  IF raises
           THEN st_propagate(call, << "web-scraper-respond" >>, "telemetry")
           ELSE /\ calls' = Append(calls, call)
                /\ open' = open \ { "scrape_website" }
                /\ exc' = exc
                /\ pc' = "s_generation"
    /\ UNCHANGED << ConfigVars, served, user_input, url, trace, gen, fetched,
                    scraped, response, parsed, result, fetch_calls,
                    completion_calls, completion_content, ui >>

\* with self.langfuse.start_as_current_generation(...) as gen
st_generation(raises) ==
    /\ variant = "streamlit"
    /\ pc = "s_generation"
    /\ LET call == Call("generation", "summarize_content", PyStr(scraped), raises)
       IN  IF raises
           THEN st_propagate(call, << "web-scraper-respond" >>, "telemetry") /\ gen' = gen
           ELSE /\ calls' = Append(calls, call)
                /\ open' = open \cup { "summarize_content" }
                /\ gen' = "handle"
                /\ exc' = exc
                /\ pc' = "s_complete"
    /\ UNCHANGED << ConfigVars, served, user_input, url, trace, fetched, scraped,
                    response, parsed, result, fetch_calls, completion_calls,
                    completion_content, ui >>

\* _call_openai_and_parse(), inside the generation block when there is a
\* recorder; without one summarize_content and respond return at once
st_complete(resp) ==
    /\ variant = "streamlit"
    /\ pc = "s_complete"
    /\ IF resp.raises
       THEN /\ completion_raised(resp)
            /\ calls' = unwind(calls, IF has_recorder(langfuse)
                                      THEN << "summarize_content", "web-scraper-respond" >>
                                      ELSE <<>>)
            /\ open' = {}
       ELSE /\ completion_returned(resp)
            /\ UNCHANGED << calls, open >>
            /\ IF has_recorder(langfuse)
               THEN pc' = "s_gen_output" /\ UNCHANGED result
               ELSE /\ pc' = "returned"
                    /\ result' = PyTuple(<< url, PyStr(scraped), parsed'.answer >>)
    /\ UNCHANGED << ConfigVars, served, user_input, url, trace, gen, fetched,
                    scraped, fetch_calls, ui >>

\* gen.output = answer
st_gen_output(raises) ==
    /\ variant = "streamlit"
    /\ pc = "s_gen_output"
    /\ LET call == Call("gen_output", "summarize_content", parsed.answer, raises)
       IN  IF raises
           THEN st_propagate(call, << "summarize_content", "web-scraper-respond" >>, "telemetry")
           ELSE /\ calls' = Append(calls, call)
                /\ open' = open
                /\ exc' = exc
                /\ pc' = IF capture_cot /\ Truthy(parsed.reasoning)
                         THEN "s_cot" ELSE "s_gen_exit"
    /\ UNCHANGED << ConfigVars, served, user_input, url, trace, gen, fetched,
                    scraped, response, parsed, result, fetch_calls,
                    completion_calls, completion_content, ui >>

\* with self.langfuse.start_as_current_span(name="chain_of_thought",
\* metadata={"reasoning": reasoning}): pass
st_cot_span(fails) ==
    /\ variant = "streamlit"
    /\ pc = "s_cot"
    /\ LET enclosing == << "summarize_content", "web-scraper-respond" >>
           create == Call("span", "chain_of_thought", parsed.reasoning, fails = "create")
           end == Call("span_end", "chain_of_thought", PyNone, fails = "end")
       IN  CASE fails = "create" -> st_propagate(create, enclosing, "telemetry")
             [] fails = "end" ->
                  /\ calls' = unwind(Append(Append(calls, create), end), enclosing)
                  /\ open' = { "chain_of_thought" }
                  /\ exc' = "telemetry"
                  /\ pc' = "raised"
             [] OTHER ->
                  /\ calls' = Append(Append(calls, create), end)
                  /\ open' = open
                  /\ exc' = exc
                  /\ pc' = "s_gen_exit"
    /\ UNCHANGED << ConfigVars, served, user_input, url, trace, gen, fetched,
                    scraped, response, parsed, result, fetch_calls,
                    completion_calls, completion_content, ui >>

\* return answer: the end of the generation "with" block
st_generation_exit(raises) ==
    /\ variant = "streamlit"
    /\ pc = "s_gen_exit"
    /\ LET call == Call("gen_end", "summarize_content", PyNone, raises)
       IN  IF raises
           THEN st_propagate(call, << "web-scraper-respond" >>, "telemetry")
           ELSE /\ calls' = Append(calls, call)
                /\ open' = open \ { "summarize_content" }
                /\ exc' = exc
                /\ pc' = "s_root_exit"
    /\ UNCHANGED << ConfigVars, served, user_input, url, trace, gen, fetched,
                    scraped, response, parsed, result, fetch_calls,
                    completion_calls, completion_content, ui >>

\* the end of the web-scraper-respond "with" block
st_root_span_exit(raises) ==
    /\ variant = "streamlit"
    /\ pc = "s_root_exit"
    /\ LET call == Call("span_end", "web-scraper-respond", PyNone, raises)
       IN  IF raises
           THEN st_propagate(call, <<>>, "telemetry")
           ELSE /\ calls' = Append(calls, call)
                /\ open' = open \ { "web-scraper-respond" }
                /\ exc' = exc
                /\ pc' = "s_flush"
    /\ UNCHANGED << ConfigVars, served, user_input, url, trace, gen, fetched,
                    scraped, response, parsed, result, fetch_calls,
                    completion_calls, completion_content, ui >>

\* self.langfuse.flush(), then return (url, scraped, summary)
st_flush(raises) ==
    /\ variant = "streamlit"
    /\ pc = "s_flush"
    /\ calls' = Append(calls, Call("flush", "flush", PyNone, raises))
    /\ IF raises
       THEN exc' = "telemetry" /\ pc' = "raised" /\ result' = result
       ELSE exc' = exc /\ pc' = "returned" /\ result' = RespondResult
    /\ UNCHANGED << ConfigVars, served, user_input, url, trace, gen, fetched,
                    scraped, response, parsed, fetch_calls, completion_calls,
                    completion_content, open, ui >>

(***************************************************************************)
(* The Run Agent handler after respond: the three columns on a return; an  *)
(* exception that left respond is not caught by the handler, and Streamlit *)
(* shows it on the page in place of the result.                            *)
(***************************************************************************)
run_agent_render ==
    /\ pc \in { "returned", "raised" }
    /\ ui' = IF pc = "returned" THEN "result" ELSE "exception"
    /\ pc' = "idle"
    /\ UNCHANGED << ConfigVars, served, user_input, url, trace, gen, fetched,
                    scraped, response, parsed, result, exc, fetch_calls,
                    completion_calls, completion_content, calls, open >>

SpanFailures == { "none", "create", "end" }

Next ==
    \/ \E api_key, ctor_raises, startup_raises \in BOOLEAN :
          run_agent_init(api_key, ctor_raises, startup_raises)
    \/ \E input \in UserInputs : agent_respond(input)
    \/ \E raises \in BOOLEAN : agent_trace(raises)
    \/ \E outcome \in FetchOutcomes : agent_scrape(outcome)
    \/ \E fails \in SpanFailures : agent_scrape_span(fails)
    \/ \E raises \in BOOLEAN : agent_generation(raises)
    \/ \E resp \in CompletionResponses : agent_complete(resp)
    \/ \E raises \in BOOLEAN : agent_gen_output(raises)
    \/ \E fails_cot, fails_steps \in SpanFailures : agent_reasoning_spans(fails_cot, fails_steps)
    \/ \E input \in UserInputs : st_respond(input)
    \/ \E raises \in BOOLEAN : st_root_span(raises)
    \/ \E raises \in BOOLEAN : st_scrape_span(raises)
    \/ \E outcome \in FetchOutcomes : st_scrape(outcome)
    \/ \E raises \in BOOLEAN : st_scrape_span_exit(raises)
    \/ \E raises \in BOOLEAN : st_generation(raises)
    \/ \E resp \in CompletionResponses : st_complete(resp)
    \/ \E raises \in BOOLEAN : st_gen_output(raises)
    \/ \E fails \in SpanFailures : st_cot_span(fails)
    \/ \E raises \in BOOLEAN : st_generation_exit(raises)
    \/ \E raises \in BOOLEAN : st_root_span_exit(raises)
    \/ \E raises \in BOOLEAN : st_flush(raises)
    \/ run_agent_render

Spec == Init /\ [][Next]_vars

(***************************************************************************)
(* scrape_website alone, on every document of at most MaxNodes top-level   *)
(* nodes and on failed fetches.                                            *)
(***************************************************************************)
ScrapeInputs ==
    { FetchOk(d) : d \in Documents }
    \cup { FetchFailed(<<>>), FetchFailed(<<"t","i","m","e","d"," ","o","u","t">>) }

InitScrape ==
    /\ variant \in { "agent", "streamlit" }
    /\ capture_cot = FALSE
    /\ pc = "scrape_website"
    /\ langfuse = "none"
    /\ ctor_failed = FALSE
    /\ served = 0
    /\ user_input = <<>>
    /\ url = PyNone
    /\ trace = "none"
    /\ gen = "none"
    /\ fetched \in ScrapeInputs
    /\ scraped = <<>>
    /\ response = NoResponse
    /\ parsed = NoOutcome
    /\ result = PyNone
    /\ exc = "none"
    /\ fetch_calls = 0
    /\ completion_calls = 0
    /\ completion_content = <<>>
    /\ calls = <<>>
    /\ open = {}
    /\ ui = "page"

scrape_website_call ==
    /\ pc = "scrape_website"
    /\ scraped' = scrape_website(fetched)
    /\ fetch_calls' = fetch_calls + 1
    /\ pc' = "scraped"
    /\ UNCHANGED << ConfigVars, served, user_input, url, trace, gen, fetched,
                    response, parsed, result, exc, completion_calls,
                    completion_content, calls, open, ui >>

NextScrape == scrape_website_call

SpecScrape == InitScrape /\ [][NextScrape]_vars

(***************************************************************************)
(* Properties.                                                             *)
(***************************************************************************)
Ended == pc \in { "returned", "raised" }

\* text has a token: "http://" or "https://" followed by a non-whitespace character
HasUrlToken(text) ==
    \E i \in 1..Len(text) :
       \/ /\ StartsWithAt(text, i, <<"h","t","t","p",":","/","/">>)
          /\ i + 7 <= Len(text)
          /\ text[i + 7] \notin Whitespace
       \/ /\ StartsWithAt(text, i, <<"h","t","t","p","s",":","/","/">>)
          /\ i + 8 <= Len(text)
          /\ text[i + 8] \notin Whitespace

\* what the pipeline returns for this call's input, fetch and completion
\* when the recorder plays no part
PipelineResult ==
    PyTuple(<< extract_first_url(user_input),
               PyStr(scrape_website(fetched)),
               call_openai_and_parse(response, capture_cot, variant).answer >>)

\* C1: a respond call on an input without an http(s):// token returns
\* ("", "", "Please provide a valid website URL in your query.") and makes no
\* fetch, no completion call and no recorder call.
C1_NoUrlNoWork ==
    (served > 0 /\ ~HasUrlToken(user_input)) =>
        /\ pc \in { "returned", "idle" }
        /\ result = PyTuple(<< PyStr(<<>>), PyStr(<<>>),
                               PyStr(<<"P","l","e","a","s","e"," ","p","r","o","v","i","d","e"," ","a"," ","v","a","l","i","d"," ","w","e","b","s","i","t","e"," ","U","R","L"," ","i","n"," ","y","o","u","r"," ","q","u","e","r","y",".">>) >>)
        /\ exc = "none"
        /\ fetch_calls = 0
        /\ completion_calls = 0
        /\ calls = <<>>

\* a call with a recorder returned on an input that names a scheme and no URL
C1_Witness ==
    /\ pc = "returned"
    /\ langfuse = "present"
    /\ Contains(user_input, <<"h","t","t","p",":","/","/">>)
    /\ ~HasUrlToken(user_input)
    /\ result = NoUrlResult

\* C2: with a URL and a recorder present, no exception of a recorder call
\* leaves respond, and the returned tuple is the one the same fetch result
\* and completion response give without recorder failures.
C2_RecorderFailuresNeverSurface ==
    (langfuse = "present" /\ Truthy(url)) =>
        /\ exc # "telemetry"
        /\ (pc = "returned" => result = PipelineResult)

\* C3: when a URL is found and the fetch fails, the scraped text is the error
\* string, respond makes exactly one completion call with that string as its
\* content and returns (url, error string, answer), with one fetch attempt.
C3_FailedFetchStillAnswered ==
    (Ended /\ fetch_calls > 0 /\ ~fetched.ok /\ ~response.raises) =>
        /\ StartsWith(scraped, <<"E","r","r","o","r"," ","s","c","r","a","p","i","n","g"," ","w","e","b","s","i","t","e",":"," ">>)
        /\ scraped = <<"E","r","r","o","r"," ","s","c","r","a","p","i","n","g"," ","w","e","b","s","i","t","e",":"," ">> \o fetched.cause
        /\ fetch_calls = 1
        /\ completion_calls = 1
        /\ completion_content = scraped
        /\ pc = "returned"
        /\ result = PyTuple(<< url, PyStr(scraped), parsed.answer >>)

\* the part of C3 that the code keeps: the same, for the calls in which no
\* recorder call raised
NoRecorderCallRaised == \A i \in 1..Len(calls) : ~calls[i].raised

C3_FailedFetchStillAnsweredUnlessRecorderRaises ==
    (Ended /\ fetch_calls > 0 /\ ~fetched.ok /\ ~response.raises /\ NoRecorderCallRaised) =>
        /\ scraped = <<"E","r","r","o","r"," ","s","c","r","a","p","i","n","g"," ","w","e","b","s","i","t","e",":"," ">> \o fetched.cause
        /\ fetch_calls = 1
        /\ completion_calls = 1
        /\ completion_content = scraped
        /\ pc = "returned"
        /\ result = PyTuple(<< url, PyStr(scraped), parsed.answer >>)

\* C4: when Langfuse() raises in __init__, the agent is still constructed,
\* self.langfuse stays None through every later respond call, no recorder
\* call is made in any of them, and each call that returns on an input with
\* a URL returns the tuple of the pipeline without telemetry.
C4_FailedRecorderStaysAbsent ==
    ctor_failed =>
        /\ pc # "stopped"
        /\ langfuse = "none"
        /\ calls = <<>>
        /\ open = {}
        /\ exc # "telemetry"
        /\ (Truthy(url) /\ ~response.raises /\ pc \in { "returned", "idle" } /\ served > 0)
               => result = PipelineResult
        /\ (Truthy(url) /\ fetch_calls > 0 /\ completion_calls = 0)
               => pc \in { "a_complete", "s_complete" }

\* the second respond call of an agent whose Langfuse() raised has returned
\* a scraped page and an answer
C4_Witness ==
    /\ ctor_failed
    /\ served = MaxRequests
    /\ served > 1
    /\ pc = "returned"
    /\ Truthy(url)
    /\ fetched.ok
    /\ scraped # <<>>
    /\ result = PyTuple(<< url, PyStr(scraped), parsed.answer >>)

\* message.content or ""
Body == IF Truthy(response.content) THEN response.content.v ELSE <<>>

DecodesAsObject(body) == json_loads(body).ok /\ json_loads(body).val.t = "dict"

\* _call_openai_and_parse has returned in reasoning mode in this call
ParsedInReasoningMode == capture_cot /\ completion_calls > 0 /\ ~response.raises

\* C5 as stated: in reasoning mode a body that decodes as a JSON object gives
\* the string form of its answer field (empty when missing) and its reasoning
\* and intermediate_steps fields; any other body is returned whole as the
\* answer with reasoning and steps absent.
C5_ReasoningModeMapsFields ==
    ParsedInReasoningMode =>
        LET obj == json_loads(Body).val
        IN  IF DecodesAsObject(Body)
            THEN /\ parsed.answer = PyStr(py_str(dict_get(obj, <<"a","n","s","w","e","r">>, PyStr(<<>>))))
                 /\ parsed.reasoning = dict_get(obj, <<"r","e","a","s","o","n","i","n","g">>, PyNone)
                 /\ parsed.steps = dict_get(obj, <<"i","n","t","e","r","m","e","d","i","a","t","e","_","s","t","e","p","s">>, PyNone)
            ELSE parsed = Outcome(PyStr(Body), PyNone, PyNone)

\* C5 as amended: the same, with the reasoning field redacted by
\* _scrub_sensitive when agent.py decodes a string, and steps absent in
\* streamlit_app.py, which extracts none; decoding never raises.
C5_ReasoningModeMapsFieldsScrubbed ==
    ParsedInReasoningMode =>
        LET obj == json_loads(Body).val
            field == dict_get(obj, <<"r","e","a","s","o","n","i","n","g">>, PyNone)
        IN  /\ exc # "completion"
            /\ IF DecodesAsObject(Body)
               THEN /\ parsed.answer = PyStr(py_str(dict_get(obj, <<"a","n","s","w","e","r">>, PyStr(<<>>))))
                    /\ parsed.reasoning =
                          IF variant = "agent" /\ field.t = "str"
                          THEN PyStr(sub_key(sub_email(field.v, 1), 1)) ELSE field
                    /\ parsed.steps =
                          IF variant = "agent"
                          THEN dict_get(obj, <<"i","n","t","e","r","m","e","d","i","a","t","e","_","s","t","e","p","s">>, PyNone) ELSE PyNone
               ELSE parsed = Outcome(PyStr(Body), PyNone, PyNone)

\* agent.py decoded an object with a number as answer, a key in its
\* reasoning and a list of steps
C5_Witness ==
    /\ ParsedInReasoningMode
    /\ variant = "agent"
    /\ DecodesAsObject(Body)
    /\ parsed.answer = PyStr(<<"7">>)
    /\ parsed.reasoning = PyStr(<<"u","s","e"," ","[","R","E","D","A","C","T","E","D","_","K","E","Y","]"," ","n","o","w">>)
    /\ parsed.steps.t = "list"

\* no email-shaped and no sk-/pk- key-shaped substring is left in s
IsScrubbed(s) ==
    \A i \in 1..Len(s) : EmailMatchEnd(s, i) = 0 /\ KeyMatchEnd(s, i) = 0

\* C6: in reasoning mode every reasoning text handed to the recorder has
\* been scrubbed of emails and keys, and the answer returned is the decoded
\* answer field.
C6_OnlyScrubbedReasoningRecorded ==
    capture_cot =>
        /\ \A i \in 1..Len(calls) :
              (calls[i].name = "chain_of_thought" /\ calls[i].payload.t = "str")
                  => IsScrubbed(calls[i].payload.v)
        /\ (pc = "returned" /\ Truthy(url) /\ DecodesAsObject(Body))
               => result.v[3] = PyStr(py_str(dict_get(json_loads(Body).val,
                                                       <<"a","n","s","w","e","r">>, PyStr(<<>>))))

\* C7: in reasoning mode the summary respond returns never contains the
\* reasoning text the model wrote, whether or not the body decodes.
C7_SummaryNeverCarriesReasoning ==
    (capture_cot /\ pc = "returned" /\ Truthy(url) /\ response.cot # <<>>) =>
        (result.v[3].t = "str" => ~Contains(result.v[3].v, response.cot))

\* C8: when chat.completions.create raises, it was called once, the
\* exception leaves respond, no tuple is returned, and the page shows the
\* exception instead of a result.
C8_CompletionFailureSurfaces ==
    (completion_calls > 0 /\ response.raises) =>
        /\ completion_calls = 1
        /\ exc = "completion"
        /\ pc \in { "raised", "idle" }
        /\ result = PyNone
        /\ (pc = "idle" => ui = "exception")

\* the handler has shown the exception of a call whose completion raised
\* after a failed fetch
C8_Witness ==
    /\ response.raises
    /\ completion_calls = 1
    /\ ~fetched.ok
    /\ fetch_calls = 1
    /\ pc = "idle"
    /\ ui = "exception"

\* every span or generation the call created has an end call after it
EveryOpenedHandleEnded ==
    \A i \in 1..Len(calls) :
       (calls[i].op \in { "span", "generation" } /\ ~calls[i].raised) =>
           \E j \in (i + 1)..Len(calls) :
              /\ calls[j].op \in { "span_end", "gen_end" }
              /\ calls[j].name = calls[i].name

\* C10: every span and generation opened during a respond call is ended by
\* the time the call returns or raises.
C10_SpansEndedWhenCallEnds == Ended => EveryOpenedHandleEnded

\* C11: a respond call with a recorder that found a URL and returns has
\* flushed the recorder as its last recorder call, after its completion call.
C11_FlushedBeforeReturn ==
    (pc = "returned" /\ langfuse = "present" /\ Truthy(url)) =>
        /\ completion_calls = 1
        /\ calls # <<>>
        /\ calls[Len(calls)].op = "flush"
        /\ \A i \in 1..(Len(calls) - 1) : calls[i].op # "flush"

(***************************************************************************)
(* Properties of scrape_website alone (SpecScrape).                        *)
(***************************************************************************)
\* the strings below nodes that are in no script, style, nav, footer or
\* header element
RECURSIVE VisibleStrings(_)
VisibleStrings(nodes) ==
    IF nodes = <<>> THEN <<>>
    ELSE LET n == Head(nodes)
         IN  (CASE n.name = "#text" -> << n.text >>
                [] n.name \in { "script", "style", "nav", "footer", "header" } -> <<>>
                [] OTHER -> VisibleStrings(n.children))
             \o VisibleStrings(Tail(nodes))

\* the non-empty texts of the p elements that are in no script, style, nav,
\* footer or header element, in document order
RECURSIVE RemainingParagraphTexts(_)
RemainingParagraphTexts(nodes) ==
    IF nodes = <<>> THEN <<>>
    ELSE LET n == Head(nodes)
             own == strip(join(<<" ">>, VisibleStrings(n.children)))
         IN  (IF n.name \in { "script", "style", "nav", "footer", "header" } THEN <<>>
              ELSE (IF n.name = "p" /\ own # <<>> THEN << own >> ELSE <<>>)
                   \o RemainingParagraphTexts(n.children))
             \o RemainingParagraphTexts(Tail(nodes))

\* C9: on a successful fetch the scraped text is the first 8000 characters
\* of the single-space join of the remaining non-empty paragraph texts: at
\* most 8000 characters, and exactly 8000 when the join is longer.
C9_ScrapedIsCappedJoin ==
    (pc = "scraped" /\ fetched.ok) =>
        LET full == join(<<" ">>, RemainingParagraphTexts(fetched.soup))
        IN  /\ Len(scraped) <= 8000
            /\ (Len(full) <= 8000 => scraped = full)
            /\ (Len(full) > 8000 => scraped = SubSeq(full, 1, 8000))

\* two paragraphs, each under the cap, whose join is over it, were cut to
\* 8000 characters
C9_Witness ==
    /\ pc = "scraped"
    /\ fetched.ok
    /\ Len(scraped) = 8000
    /\ Len(RemainingParagraphTexts(fetched.soup)) > 1
    /\ \A i \in 1..Len(RemainingParagraphTexts(fetched.soup)) :
          Len(RemainingParagraphTexts(fetched.soup)[i]) < 8000

=============================================================================
